---- MODULE Spec2Model ----
(***************************************************************************)
(* A model of the chippy CHIP-8 interpreter (src/src/chippy/chippy.rs).    *)
(* The state is the Chippy struct plus the position of the run loop; the   *)
(* actions are run's start-up (load_game, init_font), one polled SDL       *)
(* event, emulate_cycle and play_sound.                                    *)
(***************************************************************************)
EXTENDS Integers, Sequences, FiniteSets, TLC

VARIABLES
    memory,       \* [u8; 4096], as a sparse array (see Get and Put)
    v,            \* [u8; 16]
    i,            \* u16 index register
    pc,           \* u16 program counter
    display,      \* [u8; 64 * 32], as a sparse array
    stack,        \* [u16; 16]
    sp,           \* usize stack pointer
    delay_timer,  \* u8
    sound_timer,  \* u8
    keypad,       \* [bool; 16]
    audio_device, \* "paused" | "playing" (AudioDevice::pause / resume)
    status,       \* "new" | "running" | "err" | "panicked" | "quit"
    phase,        \* position in run's loop: "poll" | "sound"
    game,         \* index in Files of the file run was given (0: none yet)
    opcode,       \* the word fetched by the last emulate_cycle
    fetch_pc,     \* pc at that fetch
    cycles,       \* number of emulate_cycle calls so far
    events,       \* number of SDL events polled so far
    last_draw,    \* history: the sprite the last cycle drew, if it drew
    last_store    \* history: the registers the last Fx55 stored, while only
                  \* 6xkk instructions have run since

vars == <<memory, v, i, pc, display, stack, sp, delay_timer, sound_timer,
          keypad, audio_device, status, phase, game, opcode, fetch_pc,
          cycles, events, last_draw, last_store>>

-----------------------------------------------------------------------------
(* Bounds of the exploration. *)
MaxCycles == 132
MaxEvents == 2

(* Sizes fixed by the program. *)
MemSize == 4096
NumRegs == 16
StackSize == 16
NumKeys == 16
DisplayWidth == 64
DisplayHeight == 32
ProgramStart == \h200

-----------------------------------------------------------------------------
(* Bit operations on bytes, computed bit by bit from a truth table. *)
AndTable == [p \in 0..1 |-> [q \in 0..1 |-> p * q]]
OrTable == [p \in 0..1 |-> [q \in 0..1 |-> IF p + q > 0 THEN 1 ELSE 0]]
XorTable == [p \in 0..1 |-> [q \in 0..1 |-> (p + q) % 2]]

RECURSIVE BitOp(_, _, _, _)
BitOp(table, a, b, k) ==
    IF k = 0 THEN 0
    ELSE table[a % 2][b % 2] + 2 * BitOp(table, a \div 2, b \div 2, k - 1)

BitAnd(a, b) == BitOp(AndTable, a, b, 8)
BitOr(a, b) == BitOp(OrTable, a, b, 8)
BitXor(a, b) == BitOp(XorTable, a, b, 8)

-----------------------------------------------------------------------------
(* The two big arrays, memory and display, are kept sparse: a function     *)
(* whose domain is the set of indices that hold a nonzero value, every     *)
(* other index of the array holding 0.  Bounds are checked where the code  *)
(* indexes, not here.                                                      *)
EmptyArray == [a \in {} |-> 0]
Compact(f) == [a \in {x \in DOMAIN f : f[x] # 0} |-> f[a]]
Get(arr, k) == IF k \in DOMAIN arr THEN arr[k] ELSE 0
Put(arr, k, val) ==
    Compact([a \in DOMAIN arr \cup {k} |-> IF a = k THEN val ELSE arr[a]])

-----------------------------------------------------------------------------
(* Instruction fields. *)
nnn_of(op) == op % \h1000
nn_of(op) == op % \h100
n_of(op) == op % \h10
x_of(op) == (op \div \h100) % \h10
y_of(op) == (op \div \h10) % \h10
family(op) == (op \div \h1000) * \h1000      \* opcode & 0xF000

-----------------------------------------------------------------------------
(* The machine as one record, so that an instruction is a function from    *)
(* machine to machine.  panicked is set where Rust aborts the thread: an   *)
(* index out of bounds, or an arithmetic overflow in a build that checks.  *)
self ==
    [memory |-> memory, v |-> v, i |-> i, pc |-> pc, display |-> display,
     stack |-> stack, sp |-> sp, delay_timer |-> delay_timer,
     sound_timer |-> sound_timer, panicked |-> FALSE]

Panic(s) == [s EXCEPT !.panicked = TRUE]

(* u16 arithmetic: a result outside 0..65535 panics when the build checks  *)
(* overflow (debug) and wraps when it does not (release).                  *)
U16Overflows(r) == r < 0 \/ r > 65535
U16Wrap(r) == r % 65536

SetPc(s, r, oc) ==
    IF U16Overflows(r) /\ oc THEN Panic(s) ELSE [s EXCEPT !.pc = U16Wrap(r)]

SetI(s, r, oc) ==
    IF U16Overflows(r) /\ oc THEN Panic(s) ELSE [s EXCEPT !.i = U16Wrap(r)]

-----------------------------------------------------------------------------
(* The arms of emulate_cycle's match, in source order. *)

\* 0xA000 => self.i = opcode & 0x0FFF
op_Annn(s, op) == [s EXCEPT !.i = nnn_of(op)]

\* 0x00E0 => clear the display
op_00E0(s, op) == [s EXCEPT !.display = EmptyArray]

\* 0x0000 => self.pc += 2
op_0nnn(s, op, oc) == SetPc(s, s.pc + 2, oc)

\* 0x1000 => self.pc = opcode & 0x0FFF
op_1nnn(s, op) == [s EXCEPT !.pc = nnn_of(op)]

\* 0x2000 => stack[sp] = pc; sp += 1; pc = nnn
op_2nnn(s, op) ==
    IF s.sp >= StackSize THEN Panic(s)
    ELSE [s EXCEPT !.stack[s.sp] = s.pc, !.sp = s.sp + 1, !.pc = nnn_of(op)]

\* 0x00EE => if sp > 0 { sp -= 1 }; pc = stack[sp]
op_00EE(s, op) ==
    LET sp1 == IF s.sp > 0 THEN s.sp - 1 ELSE s.sp
    IN  IF sp1 >= StackSize THEN Panic([s EXCEPT !.sp = sp1])
        ELSE [s EXCEPT !.sp = sp1, !.pc = s.stack[sp1]]

\* 0x3000 / 0x4000 / 0x5000 / 0x9000: conditional skips
op_3xnn(s, op, oc) ==
    IF s.v[x_of(op)] = nn_of(op) THEN SetPc(s, s.pc + 2, oc) ELSE s

op_4xnn(s, op, oc) ==
    IF s.v[x_of(op)] # nn_of(op) THEN SetPc(s, s.pc + 2, oc) ELSE s

op_5xy0(s, op, oc) ==
    IF s.v[x_of(op)] = s.v[y_of(op)] THEN SetPc(s, s.pc + 2, oc) ELSE s

op_9xy0(s, op, oc) ==
    IF s.v[x_of(op)] # s.v[y_of(op)] THEN SetPc(s, s.pc + 2, oc) ELSE s

\* 0x6000 => v[x] = nn
op_6xnn(s, op) == [s EXCEPT !.v[x_of(op)] = nn_of(op)]

\* 0x7000 => v[x] = v[x].wrapping_add(nn)
op_7xnn(s, op) == [s EXCEPT !.v[x_of(op)] = (s.v[x_of(op)] + nn_of(op)) % 256]

\* The 0x8000 arm with the flag of 8xy4, 8xy5 and 8xy7 written before the
\* result instead of after it.
op_8xyn_flag_first(s, op) ==
    LET x == x_of(op)
        y == y_of(op)
        n == n_of(op)
        vx == s.v[x]
        vy == s.v[y]
    IN  CASE n = 0 -> [s EXCEPT !.v[x] = vy]
          [] n = 1 -> [s EXCEPT !.v[x] = BitOr(vx, vy)]
          [] n = 2 -> [s EXCEPT !.v[x] = BitAnd(vx, vy)]
          [] n = 3 -> [s EXCEPT !.v[x] = BitXor(vx, vy)]
          [] n = 4 -> [s EXCEPT !.v = [[s.v EXCEPT ![15] = IF vx + vy > 255 THEN 1 ELSE 0]
                                          EXCEPT ![x] = (vx + vy) % 256]]
          [] n = 5 -> [s EXCEPT !.v = [[s.v EXCEPT ![15] = IF vx < vy THEN 0 ELSE 1]
                                          EXCEPT ![x] = (vx - vy) % 256]]
          [] n = 7 -> [s EXCEPT !.v = [[s.v EXCEPT ![15] = IF vy < vx THEN 0 ELSE 1]
                                          EXCEPT ![x] = (vy - vx) % 256]]
          [] n = 6 -> LET v1 == [s.v EXCEPT ![15] = vx % 2]
                      IN  [s EXCEPT !.v = [v1 EXCEPT ![x] = v1[x] \div 2]]
          [] n = 14 -> LET v1 == [s.v EXCEPT ![15] = (vx \div 128) % 2]
                       IN  [s EXCEPT !.v = [v1 EXCEPT ![x] = (v1[x] * 2) % 256]]
          [] OTHER -> s

\* 0x8000 => register-register operations, selected by opcode & 0x0F
op_8xyn(s, op) ==
    LET x == x_of(op)
        y == y_of(op)
        n == n_of(op)
        vx == s.v[x]
        vy == s.v[y]
    IN  CASE n = 0 -> [s EXCEPT !.v[x] = vy]
          [] n = 1 -> [s EXCEPT !.v[x] = BitOr(vx, vy)]
          [] n = 2 -> [s EXCEPT !.v[x] = BitAnd(vx, vy)]
          [] n = 3 -> [s EXCEPT !.v[x] = BitXor(vx, vy)]
          \* overflowing_add: v[x] = result, then v[0xF] = overflow
          [] n = 4 -> [s EXCEPT !.v = [[s.v EXCEPT ![x] = (vx + vy) % 256]
                                          EXCEPT ![15] = IF vx + vy > 255 THEN 1 ELSE 0]]
          \* overflowing_sub: v[x] = result, then v[0xF] = !borrow
          [] n = 5 -> [s EXCEPT !.v = [[s.v EXCEPT ![x] = (vx - vy) % 256]
                                          EXCEPT ![15] = IF vx < vy THEN 0 ELSE 1]]
          [] n = 7 -> [s EXCEPT !.v = [[s.v EXCEPT ![x] = (vy - vx) % 256]
                                          EXCEPT ![15] = IF vy < vx THEN 0 ELSE 1]]
          \* v[0xF] = v[x] & 1, then v[x] >>= 1 (reads v[x] again)
          [] n = 6 -> LET v1 == [s.v EXCEPT ![15] = vx % 2]
                      IN  [s EXCEPT !.v = [v1 EXCEPT ![x] = v1[x] \div 2]]
          \* v[0xF] = (v[x] >> 7) & 1, then v[x] <<= 1
          [] n = 14 -> LET v1 == [s.v EXCEPT ![15] = (vx \div 128) % 2]
                       IN  [s EXCEPT !.v = [v1 EXCEPT ![x] = (v1[x] * 2) % 256]]
          [] OTHER -> s      \* println!("Unknown opcode")

\* 0xB000 => pc = nnn + v[0]
op_Bnnn(s, op, oc) == SetPc(s, nnn_of(op) + s.v[0], oc)

\* 0xC000 => v[x] = rand::random::<u8>() & nn
op_Cxnn(s, op, rnd) == [s EXCEPT !.v[x_of(op)] = BitAnd(rnd, nn_of(op))]

\* The inner loop of 0xD000 with a set pixel under a sprite bit left on.
RECURSIVE draw_bits_or(_, _, _, _, _)
draw_bits_or(s, pixel_row, pixel_x, pixel_y, k) ==
    IF k = 8 THEN s
    ELSE LET pixel_value == pixel_row \div 128
             pixel_index == pixel_y * DisplayWidth + pixel_x
             s1 == IF pixel_value = 1
                   THEN IF Get(s.display, pixel_index) # 0
                        THEN [s EXCEPT !.v[15] = 1]
                        ELSE [s EXCEPT !.display = Put(@, pixel_index, 1)]
                   ELSE s
         IN  draw_bits_or(s1, (pixel_row * 2) % 256, (pixel_x + 1) % DisplayWidth,
                          pixel_y, k + 1)

\* The inner loop of 0xD000: the 8 bits of one sprite row, most significant
\* first, from column pixel_x on, wrapping at 64.
RECURSIVE draw_bits(_, _, _, _, _)
draw_bits(s, pixel_row, pixel_x, pixel_y, k) ==
    IF k = 8 THEN s
    ELSE LET pixel_value == pixel_row \div 128
             pixel_index == pixel_y * DisplayWidth + pixel_x
             s1 == IF pixel_value = 1
                   THEN IF Get(s.display, pixel_index) # 0
                        THEN [s EXCEPT !.display = Put(@, pixel_index, 0),
                                       !.v[15] = 1]
                        ELSE [s EXCEPT !.display = Put(@, pixel_index, 1)]
                   ELSE s
         IN  draw_bits(s1, (pixel_row * 2) % 256, (pixel_x + 1) % DisplayWidth,
                       pixel_y, k + 1)

\* The outer loop of 0xD000: rows 0..n-1 read at memory[i + row].
RECURSIVE draw_rows(_, _, _, _, _, _)
draw_rows(s, x, y, n, row, oc) ==
    IF row = n THEN s
    ELSE IF U16Overflows(s.i + row) /\ oc THEN Panic(s)
    ELSE IF U16Wrap(s.i + row) >= MemSize THEN Panic(s)
    ELSE draw_rows(draw_bits(s, Get(s.memory, U16Wrap(s.i + row)), x,
                             (y + row) % DisplayHeight, 0),
                   x, y, n, row + 1, oc)

\* The 0xD000 arm with the origin taken from Vx and Vy as they are, without
\* `% 64` and `% 32`.
op_Dxyn_origin_not_wrapped(s, op, oc) ==
    LET x == s.v[x_of(op)]
        y == s.v[y_of(op)]
        n == n_of(op)
        drawn == draw_rows([s EXCEPT !.v[15] = 0], x, y, n, 0, oc)
    IN  IF drawn.panicked THEN drawn ELSE SetI(drawn, drawn.i + n, oc)

\* 0xD000 => draw, then self.i += n
op_Dxyn(s, op, oc) ==
    LET x == s.v[x_of(op)] % DisplayWidth
        y == s.v[y_of(op)] % DisplayHeight
        n == n_of(op)
        drawn == draw_rows([s EXCEPT !.v[15] = 0], x, y, n, 0, oc)
    IN  IF drawn.panicked THEN drawn ELSE SetI(drawn, drawn.i + n, oc)

\* The 0xE000 arm with `_ => panic!(...)` for a word outside the table.
op_Exnn_unknown_fatal(s, op, oc) ==
    LET x == x_of(op)
    IN  CASE nn_of(op) = \h9E ->
                 IF s.v[x] >= NumKeys THEN Panic(s)
                 ELSE IF keypad[s.v[x]] THEN SetPc(s, s.pc + 2, oc) ELSE s
          [] nn_of(op) = \hA1 ->
                 IF s.v[x] >= NumKeys THEN Panic(s)
                 ELSE IF ~keypad[s.v[x]] THEN SetPc(s, s.pc + 2, oc) ELSE s
          [] OTHER -> Panic(s)

\* 0xE000 => skip on keypad[v[x]]
op_Exnn(s, op, oc) ==
    LET x == x_of(op)
    IN  CASE nn_of(op) = \h9E ->
                 IF s.v[x] >= NumKeys THEN Panic(s)
                 ELSE IF keypad[s.v[x]] THEN SetPc(s, s.pc + 2, oc) ELSE s
          [] nn_of(op) = \hA1 ->
                 IF s.v[x] >= NumKeys THEN Panic(s)
                 ELSE IF ~keypad[s.v[x]] THEN SetPc(s, s.pc + 2, oc) ELSE s
          [] OTHER -> s      \* println!("Unknown opcode")

\* The scan of Fx0A: for i in 0..16 { if keypad[i] { v[x] = i; key_pressed = true } }
\* The loop has no break, so every pressed key is stored in turn.
RECURSIVE key_scan(_, _, _)
key_scan(s, x, k) ==
    IF k = NumKeys THEN s
    ELSE key_scan(IF keypad[k] THEN [s EXCEPT !.v[x] = k] ELSE s, x, k + 1)

key_pressed == \E k \in 0..(NumKeys - 1) : keypad[k]

\* Fx0A without the `pc -= 2` of the no-key case.
op_Fx0A_without_rewind(s, op, oc) == key_scan(s, x_of(op), 0)

\* 0xFx0A => wait for a key: without one, pc -= 2 undoes the pc += 2 below
op_Fx0A(s, op, oc) ==
    LET scanned == key_scan(s, x_of(op), 0)
    IN  IF ~key_pressed THEN SetPc(scanned, scanned.pc - 2, oc) ELSE scanned

\* Fx33 with v[x] / 10 stored as the tens digit, without `% 10`.
op_Fx33_tens_not_reduced(s, op) ==
    LET vx == s.v[x_of(op)]
    IN  IF s.i >= MemSize THEN Panic(s)
        ELSE LET s1 == [s EXCEPT !.memory = Put(@, s.i, vx \div 100)]
             IN  IF s.i + 1 >= MemSize THEN Panic(s1)
                 ELSE LET s2 == [s1 EXCEPT !.memory = Put(@, s.i + 1, vx \div 10)]
                      IN  IF s.i + 2 >= MemSize THEN Panic(s2)
                          ELSE [s2 EXCEPT !.memory = Put(@, s.i + 2, (vx % 100) % 10)]

\* 0xFx33 => memory[i], memory[i+1], memory[i+2] = hundreds, tens, ones
op_Fx33(s, op) ==
    LET vx == s.v[x_of(op)]
    IN  IF s.i >= MemSize THEN Panic(s)
        ELSE LET s1 == [s EXCEPT !.memory = Put(@, s.i, vx \div 100)]
             IN  IF s.i + 1 >= MemSize THEN Panic(s1)
                 ELSE LET s2 == [s1 EXCEPT !.memory = Put(@, s.i + 1, (vx \div 10) % 10)]
                      IN  IF s.i + 2 >= MemSize THEN Panic(s2)
                          ELSE [s2 EXCEPT !.memory = Put(@, s.i + 2, (vx % 100) % 10)]

\* Fx55 with the loop `for i in 0..x`, which leaves v[x] out.
RECURSIVE store_regs_below_x(_, _, _)
store_regs_below_x(s, x, k) ==
    IF k >= x THEN s
    ELSE IF s.i + k >= MemSize THEN Panic(s)
    ELSE store_regs_below_x([s EXCEPT !.memory = Put(@, s.i + k, s.v[k])], x, k + 1)

\* 0xFx55 => for i in 0..=x { memory[I + i] = v[i] }
RECURSIVE store_regs(_, _, _)
store_regs(s, x, k) ==
    IF k > x THEN s
    ELSE IF s.i + k >= MemSize THEN Panic(s)
    ELSE store_regs([s EXCEPT !.memory = Put(@, s.i + k, s.v[k])], x, k + 1)

\* 0xFx65 => for i in 0..=x { v[i] = memory[I + i] }
RECURSIVE load_regs(_, _, _)
load_regs(s, x, k) ==
    IF k > x THEN s
    ELSE IF s.i + k >= MemSize THEN Panic(s)
    ELSE load_regs([s EXCEPT !.v[k] = Get(s.memory, s.i + k)], x, k + 1)

\* 0xF000 => timers, index, key wait, font, BCD, register transfer
op_Fxnn(s, op, oc) ==
    LET x == x_of(op)
        nn == nn_of(op)
    IN  CASE nn = \h07 -> [s EXCEPT !.v[x] = s.delay_timer]
          [] nn = \h15 -> [s EXCEPT !.delay_timer = s.v[x]]
          [] nn = \h18 -> [s EXCEPT !.sound_timer = s.v[x]]
          [] nn = \h1E -> SetI(s, s.i + s.v[x], oc)
          [] nn = \h0A -> op_Fx0A(s, op, oc)
          [] nn = \h29 -> [s EXCEPT !.i = s.v[x] * 5]
          [] nn = \h33 -> op_Fx33(s, op)
          [] nn = \h55 -> store_regs(s, x, 0)
          [] nn = \h65 -> load_regs(s, x, 0)
          [] OTHER -> s      \* println!("Unknown opcode")

\* match opcode & 0xF000 { ... }: the arms in source order.  The patterns
\* 0x00E0 and 0x00EE are compared with opcode & 0xF000 like the others.
execute(s, op, rnd, oc) ==
    LET f == family(op)
    IN  IF f = \hA000 THEN op_Annn(s, op)
        ELSE IF f = \h00E0 THEN op_00E0(s, op)
        ELSE IF f = \h0000 THEN op_0nnn(s, op, oc)
        ELSE IF f = \h1000 THEN op_1nnn(s, op)
        ELSE IF f = \h2000 THEN op_2nnn(s, op)
        ELSE IF f = \h00EE THEN op_00EE(s, op)
        ELSE IF f = \h3000 THEN op_3xnn(s, op, oc)
        ELSE IF f = \h4000 THEN op_4xnn(s, op, oc)
        ELSE IF f = \h5000 THEN op_5xy0(s, op, oc)
        ELSE IF f = \h9000 THEN op_9xy0(s, op, oc)
        ELSE IF f = \h6000 THEN op_6xnn(s, op)
        ELSE IF f = \h7000 THEN op_7xnn(s, op)
        ELSE IF f = \h8000 THEN op_8xyn(s, op)
        ELSE IF f = \hB000 THEN op_Bnnn(s, op, oc)
        ELSE IF f = \hC000 THEN op_Cxnn(s, op, rnd)
        ELSE IF f = \hD000 THEN op_Dxyn(s, op, oc)
        ELSE IF f = \hE000 THEN op_Exnn(s, op, oc)
        ELSE IF f = \hF000 THEN op_Fxnn(s, op, oc)
        ELSE s               \* println!("Unimplmented or Unknown opcode")

\* The end of emulate_cycle: both timers count down, then pc += 2.
tick_timers(s) ==
    [s EXCEPT !.delay_timer = IF @ > 0 THEN @ - 1 ELSE @,
              !.sound_timer = IF @ > 0 THEN @ - 1 ELSE @]

advance_pc(s, oc) == SetPc(s, s.pc + 2, oc)

\* The fetch: memory[pc] << 8 | memory[pc + 1], each index bounds-checked.
fetch_panics(s, oc) ==
    \/ s.pc >= MemSize
    \/ U16Overflows(s.pc + 1) /\ oc
    \/ U16Wrap(s.pc + 1) >= MemSize

fetch(s) == Get(s.memory, s.pc) * 256 + Get(s.memory, U16Wrap(s.pc + 1))

emulate_cycle(s, rnd, oc) ==
    IF fetch_panics(s, oc) THEN Panic(s)
    ELSE LET executed == execute(s, fetch(s), rnd, oc)
         IN  IF executed.panicked THEN executed
             ELSE advance_pc(tick_timers(executed), oc)

-----------------------------------------------------------------------------
(* The font and the loader. *)

characters ==
    << \hF0, \h90, \h90, \h90, \hF0,   \* 0
       \h20, \h60, \h20, \h20, \h70,   \* 1
       \hF0, \h10, \hF0, \h80, \hF0,   \* 2
       \hF0, \h10, \hF0, \h10, \hF0,   \* 3
       \h90, \h90, \hF0, \h10, \h10,   \* 4
       \hF0, \h80, \hF0, \h10, \hF0,   \* 5
       \hF0, \h80, \hF0, \h90, \hF0,   \* 6
       \hF0, \h10, \h20, \h40, \h40,   \* 7
       \hF0, \h90, \hF0, \h90, \hF0,   \* 8
       \hF0, \h90, \hF0, \h10, \hF0,   \* 9
       \hF0, \h90, \hF0, \h90, \h90,   \* A
       \hE0, \h90, \hE0, \h90, \hE0,   \* B
       \hF0, \h80, \h80, \h80, \hF0,   \* C
       \hE0, \h90, \h90, \h90, \hE0,   \* D
       \hF0, \h80, \hF0, \h80, \hF0,   \* E
       \hF0, \h80, \hF0, \h80, \h80 >> \* F

\* for (i, character) in characters.iter().enumerate() { memory[i] = *character }
init_font(mem) ==
    Compact([a \in DOMAIN mem \cup 0..(Len(characters) - 1) |->
                IF a < Len(characters) THEN characters[a + 1] ELSE mem[a]])

(* A file is what File::open and file.bytes() give: whether it opens, its  *)
(* bytes, and the position (1-based, 0 for none) of a byte whose read      *)
(* fails.  load_game's loop `memory[i] = byte?; i += 1` from i = 0x200     *)
(* stops at the first byte whose read fails (Err) or whose index is out of *)
(* bounds (panic); the bytes before it have been stored.                   *)
load_stop(file) ==
    LET room == MemSize - ProgramStart
        stops == {k \in 1..Len(file.bytes) : k = file.fail_at \/ k > room}
    IN  IF stops = {} THEN 0 ELSE CHOOSE k \in stops : \A j \in stops : k <= j

load_result(file) ==
    IF ~file.readable THEN "err"
    ELSE IF load_stop(file) = 0 THEN "ok"
    ELSE IF load_stop(file) = file.fail_at THEN "err"
    ELSE "panic"

\* load_game with `let mut i = 0` instead of 0x200.
load_game_at_zero(mem, file) ==
    LET stored == IF ~file.readable THEN 0
                  ELSE IF load_stop(file) = 0 THEN Len(file.bytes)
                  ELSE load_stop(file) - 1
    IN  Compact([a \in DOMAIN mem \cup 0..(stored - 1) |->
                    IF a < stored THEN file.bytes[a + 1] ELSE mem[a]])

load_game(mem, file) ==
    LET stored == IF ~file.readable THEN 0
                  ELSE IF load_stop(file) = 0 THEN Len(file.bytes)
                  ELSE load_stop(file) - 1
    IN  Compact([a \in DOMAIN mem \cup ProgramStart..(ProgramStart + stored - 1) |->
                    IF a >= ProgramStart /\ a - ProgramStart < stored
                    THEN file.bytes[a - ProgramStart + 1]
                    ELSE mem[a]])

-----------------------------------------------------------------------------
(* The ROM files run is tried on. *)

\* A program as big-endian bytes of its 16-bit words.
Code(words) ==
    [k \in 1..(2 * Len(words)) |->
        IF k % 2 = 1 THEN words[(k + 1) \div 2] \div 256 ELSE words[k \div 2] % 256]

\* Timers, key wait and jumps.
RomKeys ==
    Code(<< \h0000,     \* 200
            \h6305,     \* 202  V3 = 5
            \hF315,     \* 204  delay timer = V3
            \hF318,     \* 206  sound timer = V3
            \hF40A,     \* 208  wait for a key, into V4
            \h120C,     \* 20A  jump
            \h0000,     \* 20C
            \hB210 >>)  \* 20E  jump with offset V0

\* Calls and returns, looping until the stack is full.
RomCalls ==
    Code(<< \h0000,     \* 200
            \h2206,     \* 202  call
            \h0000,     \* 204
            \h0000,     \* 206
            \h00EE,     \* 208  return
            \h0000,     \* 20A
            \h2200 >>)  \* 20C  call

\* The largest ROM that fits, and one byte more.
RomFull == [k \in 1..(MemSize - ProgramStart) |-> IF k % 1000 = 1 \/ k = MemSize - ProgramStart THEN \hA5 ELSE 0]
RomTooBig == [k \in 1..(MemSize - ProgramStart + 1) |-> \hA5]

\* Skips on registers drawn at random and on keys, words outside the
\* instruction table, and a 0nnn.
RomSkips ==
    Code(<< \h0000,     \* 200
            \hC103,     \* 202  V1 = random & 0x03
            \hC221,     \* 204  V2 = random & 0x21
            \h3101,     \* 206  skip if V1 = 1
            \h4101,     \* 208  skip if V1 # 1
            \h5120,     \* 20A  skip if V1 = V2
            \h9120,     \* 20C  skip if V1 # V2
            \h8128,     \* 20E  no 8xy8 in the table
            \hF1FF,     \* 210  no FxFF in the table
            \h0123,     \* 212  0nnn
            \h6A01,     \* 214  VA = 1
            \hE2FF,     \* 216  no ExFF in the table
            \hE19E,     \* 218  skip if key V1 is down
            \hE1A1,     \* 21A  skip if key V1 is up
            \hE29E,     \* 21C  skip if key V2 is down
            \hE2A1 >>)  \* 21E  skip if key V2 is up

\* Sprites at an origin drawn at random: the same sprite twice in a row on
\* a clear display and on a picture, font glyphs, a sprite of no rows, one
\* sprite on top of another, and a 00E0.
RomDraw ==
    Code(<< \h0000,     \* 200
            \hC1FF,     \* 202  V1 = random
            \hC2FF,     \* 204  V2 = random
            \hA001,     \* 206  I = 1: font bytes 90 90 90
            \hD121,     \* 208  draw memory[1] at (V1, V2)
            \hD121,     \* 20A  draw memory[2] at (V1, V2)
            \hA230,     \* 20C  I = 0x230
            \hD122,     \* 20E  draw memory[0x230..0x231] at (V1, V2)
            \hD122,     \* 210  draw memory[0x232..0x233] at (V1, V2)
            \hA000,     \* 212  I = 0: glyph 0
            \hD125,     \* 214  draw 5 rows at (V1, V2)
            \hD120,     \* 216  draw 0 rows
            \h00E0,     \* 218  clear the display
            \h0000,     \* 21A
            \hD125,     \* 21C  draw 5 rows at (V1, V2)
            \hDF23,     \* 21E  draw 3 rows at (VF, V2)
            \hA001,     \* 220  I = 1
            \hD121,     \* 222  draw memory[1] at (V1, V2)
            \hD121,     \* 224  draw memory[2] at (V1, V2)
            \h0000,     \* 226
            \h0000,     \* 228
            \h0000,     \* 22A
            \h0000,     \* 22C
            \h0000,     \* 22E
            \h3C42,     \* 230  sprite rows 3C 42
            \h3C42 >>)  \* 232  sprite rows 3C 42

\* Additions and subtractions of registers drawn at random, VF among them.
RomAlu ==
    Code(<< \h0000,     \* 200
            \hC1FF,     \* 202  V1 = random
            \hC2FF,     \* 204  V2 = random
            \h8124,     \* 206  V1 = V1 + V2
            \hC1FF,     \* 208  V1 = random
            \h8125,     \* 20A  V1 = V1 - V2
            \hC1FF,     \* 20C  V1 = random
            \h8127,     \* 20E  V1 = V2 - V1
            \hCFFF,     \* 210  VF = random
            \h8F24,     \* 212  VF = VF + V2
            \hCFFF,     \* 214  VF = random
            \h8F25,     \* 216  VF = VF - V2
            \hCFFF,     \* 218  VF = random
            \h8F27,     \* 21A  VF = V2 - VF
            \hC1FF,     \* 21C  V1 = random
            \hCFFF,     \* 21E  VF = random
            \h81F4,     \* 220  V1 = V1 + VF
            \h81F5,     \* 222  V1 = V1 - VF
            \h81F7,     \* 224  V1 = VF - V1
            \hCFFF,     \* 226  VF = random
            \h8FF4,     \* 228  VF = VF + VF
            \h8115 >>)  \* 22A  V1 = V1 - V1

\* Shifts of registers drawn at random, VF among them.
RomShift ==
    Code(<< \h0000,     \* 200
            \hC1FF,     \* 202  V1 = random
            \hC2FF,     \* 204  V2 = random
            \h8126,     \* 206  V1 >>= 1
            \hC1FF,     \* 208  V1 = random
            \h812E,     \* 20A  V1 <<= 1
            \hCFFF,     \* 20C  VF = random
            \h8F26,     \* 20E  VF >>= 1
            \hCFFF,     \* 210  VF = random
            \h8F2E >>)  \* 212  VF <<= 1

\* Decimal digits of registers, and registers stored, overwritten and
\* loaded back.
RomMem ==
    Code(<< \h0000,     \* 200
            \hC1FF,     \* 202  V1 = random
            \hA300,     \* 204  I = 0x300
            \hF133,     \* 206  digits of V1 at 0x300..0x302
            \hF033,     \* 208  digits of V0 at 0x300..0x302
            \hC2FF,     \* 20A  V2 = random
            \hA310,     \* 20C  I = 0x310
            \hF255,     \* 20E  store V0..V2
            \h6000,     \* 210  V0 = 0
            \h6100,     \* 212  V1 = 0
            \h6200,     \* 214  V2 = 0
            \hF265,     \* 216  load V0..V2
            \hA320,     \* 218  I = 0x320
            \hFF55,     \* 21A  store V0..VF
            \h6133,     \* 21C  V1 = 0x33
            \h6F01,     \* 21E  VF = 1
            \hFF65,     \* 220  load V0..VF
            \hA330,     \* 222  I = 0x330
            \hF055,     \* 224  store V0
            \h6000,     \* 226  V0 = 0
            \hF065,     \* 228  load V0
            \hAFFD,     \* 22A  I = 0xFFD
            \hF133 >>)  \* 22C  digits of V1 at 0xFFD..0xFFF

\* I and PC at the end of memory: one of five ways, chosen at random.
RomEdge ==
    Code(<< \h0000,     \* 200
            \hC107,     \* 202  V1 = random & 0x07
            \hAFFE,     \* 204  I = 0xFFE
            \h4100,     \* 206  skip if V1 # 0
            \hF133,     \* 208  digits of V1 at 0xFFE..0x1000
            \h4101,     \* 20A  skip if V1 # 1
            \hF265,     \* 20C  load V0..V2 from 0xFFE..0x1000
            \h4102,     \* 20E  skip if V1 # 2
            \hD013,     \* 210  draw the rows at 0xFFE..0x1000
            \h4104,     \* 212  skip if V1 # 4
            \h1218,     \* 214  jump
            \h1FFD,     \* 216  jump to the last byte of memory
            \h0000,     \* 218
            \hF01E,     \* 21A  I = I + V0 = 0x101E
            \hF055 >>)  \* 21C  store V0 at 0x101E

File(bytes) == [readable |-> TRUE, bytes |-> bytes, fail_at |-> 0]

Files ==
    << File(RomKeys),
       File(RomCalls),
       File(RomFull),
       File(<< >>),
       File(RomTooBig),
       [readable |-> FALSE, bytes |-> << >>, fail_at |-> 0],
       [readable |-> TRUE, bytes |-> RomKeys, fail_at |-> 4],
       File(RomSkips),
       File(RomDraw),
       File(RomAlu),
       File(RomShift),
       File(RomMem),
       File(RomEdge) >>

\* The files run with a keyboard at the host, and those run without.
HostGames == 1..8
QuietGames == (1..Len(Files)) \ HostGames

-----------------------------------------------------------------------------
(* The host: SDL events. *)

\* Some(index) is {index}, None is {}.
map_keycode_to_chip8_key(keycode) ==
    CASE keycode = "Num1" -> {\h1}
      [] keycode = "Num2" -> {\h2}
      [] keycode = "Num3" -> {\h3}
      [] keycode = "Num4" -> {\hC}
      [] keycode = "Q" -> {\h4}
      [] keycode = "W" -> {\h5}
      [] keycode = "E" -> {\h6}
      [] keycode = "R" -> {\hD}
      [] keycode = "A" -> {\h7}
      [] keycode = "S" -> {\h8}
      [] keycode = "D" -> {\h9}
      [] keycode = "F" -> {\hE}
      [] keycode = "Z" -> {\hA}
      [] keycode = "X" -> {\h0}
      [] keycode = "C" -> {\hB}
      [] keycode = "V" -> {\hF}
      [] OTHER -> {}

HostKeycodes == {"Num1", "Num2", "P", "Escape"}

SdlEvents ==
    {[type |-> "Quit", keycode |-> "", repeat |-> FALSE],
     [type |-> "MouseMotion", keycode |-> "", repeat |-> FALSE]}
    \cup {[type |-> "KeyDown", keycode |-> k, repeat |-> r] :
            k \in HostKeycodes, r \in BOOLEAN}
    \cup {[type |-> "KeyUp", keycode |-> k, repeat |-> FALSE] : k \in HostKeycodes}

\* The values rand::random::<u8>() is tried with.
RandomBytes == {\h00, \h01, \h02, \h5A, \h7F, \h80, \h81, \h9C, \hFF}

set_key(keys, keycode, pressed) ==
    LET index == map_keycode_to_chip8_key(keycode)
    IN  IF index = {} THEN keys
        ELSE [keys EXCEPT ![CHOOSE k \in index : TRUE] = pressed]

-----------------------------------------------------------------------------
(* History of the run, kept beside the machine and read by no instruction. *)

NoDraw ==
    [valid |-> FALSE, rows |-> << >>, vx |-> 0, vy |-> 0,
     before |-> EmptyArray, twice |-> FALSE, origin |-> EmptyArray]

\* What a cycle from machine s to machine t leaves in last_draw.  A cycle
\* that completes a Dxyn records the sprite rows it read at memory[i + row],
\* the values of Vx and Vy it took its origin from and the display it drew
\* on; twice says that the cycle before was a Dxyn of the same rows at the
\* same Vx and Vy, and origin is then the display before that first draw.
draw_history(s, t, oc) ==
    IF fetch_panics(s, oc) \/ t.panicked \/ family(fetch(s)) # \hD000
    THEN NoDraw
    ELSE LET op == fetch(s)
             rows == [r \in 1..n_of(op) |-> Get(s.memory, s.i + r - 1)]
             vx == s.v[x_of(op)]
             vy == s.v[y_of(op)]
             twice == /\ last_draw.valid
                      /\ last_draw.rows = rows
                      /\ last_draw.vx = vx
                      /\ last_draw.vy = vy
         IN  [valid |-> TRUE, rows |-> rows, vx |-> vx, vy |-> vy,
              before |-> s.display, twice |-> twice,
              origin |-> IF twice THEN last_draw.before ELSE EmptyArray]

NoStore ==
    [valid |-> FALSE, x |-> 0, i |-> 0, v |-> [r \in 0..(NumRegs - 1) |-> 0],
     changed |-> {}, loaded |-> FALSE]

\* What a cycle from machine s to machine t leaves in last_store.  A cycle
\* that completes an Fx55 records x, I and the registers it stored.  The
\* record is kept over the 6xkk instructions that follow, changed being the
\* registers that no longer hold the stored value, and over one Fx65 of the
\* same x that follows them, which sets loaded; anything else drops it.
store_history(s, t, oc) ==
    IF fetch_panics(s, oc) \/ t.panicked THEN NoStore
    ELSE LET op == fetch(s)
         IN  IF family(op) = \hF000 /\ nn_of(op) = \h55
             THEN [valid |-> TRUE, x |-> x_of(op), i |-> s.i, v |-> s.v,
                   changed |-> {}, loaded |-> FALSE]
             ELSE IF ~last_store.valid \/ last_store.loaded THEN NoStore
             ELSE IF family(op) = \h6000
             THEN [last_store EXCEPT
                     !.changed = {k \in 0..(NumRegs - 1) : t.v[k] # last_store.v[k]}]
             ELSE IF family(op) = \hF000 /\ nn_of(op) = \h65 /\ x_of(op) = last_store.x
             THEN [last_store EXCEPT !.loaded = TRUE]
             ELSE NoStore

-----------------------------------------------------------------------------
(* The state after Chippy::new(): everything zero, pc included. *)
Init ==
    /\ memory = EmptyArray
    /\ v = [r \in 0..(NumRegs - 1) |-> 0]
    /\ i = 0
    /\ pc = 0
    /\ stack = [k \in 0..(StackSize - 1) |-> 0]
    /\ sp = 0
    /\ display = EmptyArray
    /\ keypad = [k \in 0..(NumKeys - 1) |-> FALSE]
    /\ delay_timer = 0
    /\ sound_timer = 0
    /\ audio_device = "paused"
    /\ status = "new"
    /\ phase = "poll"
    /\ game = 0
    /\ opcode = 0
    /\ fetch_pc = 0
    /\ cycles = 0
    /\ events = 0
    /\ last_draw = NoDraw
    /\ last_store = NoStore

\* run, up to its loop: self.load_game(game_path)?; self.init_font();
RunOn(games) ==
    /\ status = "new"
    /\ \E g \in games :
          LET result == load_result(Files[g])
              loaded == load_game(memory, Files[g])
          IN  /\ game' = g
              /\ memory' = IF result = "ok" THEN init_font(loaded) ELSE loaded
              /\ status' = CASE result = "ok" -> "running"
                             [] result = "err" -> "err"
                             [] OTHER -> "panicked"
    /\ UNCHANGED <<v, i, pc, display, stack, sp, delay_timer, sound_timer,
                   keypad, audio_device, phase, opcode, fetch_pc, cycles, events,
                   last_draw, last_store>>

\* One event of `for event in event_pump.poll_iter()`.
PollEvent ==
    /\ status = "running"
    /\ phase = "poll"
    /\ events < MaxEvents
    /\ \E event \in SdlEvents :
          /\ status' = IF \/ event.type = "Quit"
                          \/ event.type = "KeyDown" /\ event.keycode = "Escape"
                       THEN "quit" ELSE status
          /\ keypad' = IF status' = "quit" THEN keypad
                       ELSE IF event.type = "KeyDown" /\ ~event.repeat
                       THEN set_key(keypad, event.keycode, TRUE)
                       ELSE IF event.type = "KeyUp"
                       THEN set_key(keypad, event.keycode, FALSE)
                       ELSE keypad
    /\ events' = events + 1
    /\ UNCHANGED <<memory, v, i, pc, display, stack, sp, delay_timer,
                   sound_timer, audio_device, phase, game, opcode, fetch_pc,
                   cycles, last_draw, last_store>>

\* self.emulate_cycle() in run's loop.
EmulateCycle ==
    /\ status = "running"
    /\ phase = "poll"
    /\ cycles < MaxCycles
    /\ \E oc \in BOOLEAN :
       \E rnd \in (IF ~fetch_panics(self, oc) /\ family(fetch(self)) = \hC000
                   THEN RandomBytes ELSE {0}) :
          LET s == emulate_cycle(self, rnd, oc)
          IN  /\ memory' = s.memory
              /\ v' = s.v
              /\ i' = s.i
              /\ pc' = s.pc
              /\ display' = s.display
              /\ stack' = s.stack
              /\ sp' = s.sp
              /\ delay_timer' = s.delay_timer
              /\ sound_timer' = s.sound_timer
              /\ status' = IF s.panicked THEN "panicked" ELSE status
              /\ phase' = IF s.panicked THEN phase ELSE "sound"
              /\ opcode' = IF fetch_panics(self, oc) THEN opcode ELSE fetch(self)
              /\ fetch_pc' = pc
              /\ last_draw' = draw_history(self, s, oc)
              /\ last_store' = store_history(self, s, oc)
    /\ cycles' = cycles + 1
    /\ UNCHANGED <<keypad, audio_device, game, events>>

\* self.play_sound() in run's loop.
PlaySound ==
    /\ status = "running"
    /\ phase = "sound"
    /\ sound_timer' = IF sound_timer > 0 THEN sound_timer - 1 ELSE sound_timer
    /\ audio_device' = IF sound_timer' > 0 THEN "playing" ELSE "paused"
    /\ phase' = "poll"
    /\ UNCHANGED <<memory, v, i, pc, display, stack, sp, delay_timer, keypad,
                   status, game, opcode, fetch_pc, cycles, events,
                   last_draw, last_store>>

Run == RunOn(HostGames)

Next == Run \/ PollEvent \/ EmulateCycle \/ PlaySound

Spec == Init /\ [][Next]_vars

(* The same program with no event ever in the SDL queue, on the ROMs that  *)
(* compute, draw and store without reading the keypad.                     *)
RunQuiet == RunOn(QuietGames)

NextQuiet == RunQuiet \/ EmulateCycle \/ PlaySound

SpecQuiet == Init /\ [][NextQuiet]_vars

-----------------------------------------------------------------------------
(* Vocabulary of the properties. *)

\* A step of the run loop that is a call of emulate_cycle which fetches.
CycleStep ==
    /\ status = "running"
    /\ phase = "poll"
    /\ cycles' = cycles + 1
    /\ pc < MemSize - 1

\* The word that call fetches.
Fetched == fetch(self)

IsFx0A(op) == family(op) = \hF000 /\ nn_of(op) = \h0A
IsTimerWrite(op) == family(op) = \hF000 /\ nn_of(op) \in {\h15, \h18}

PressedKeys == {k \in 0..(NumKeys - 1) : keypad[k]}
LowestPressed == CHOOSE k \in PressedKeys : \A j \in PressedKeys : k <= j

AllZero(f) == \A a \in DOMAIN f : f[a] = 0

RomBytes == Files[game].bytes

\* Memory as the loader is to leave it: the font at 0..79, the ROM from
\* 0x200, zero elsewhere.
LoadedImage(a) ==
    IF a >= ProgramStart /\ a < ProgramStart + Len(RomBytes)
    THEN RomBytes[a - ProgramStart + 1]
    ELSE IF a < 80 THEN characters[a + 1]
    ELSE 0

Glyph(g) == [r \in 0..4 |-> characters[5 * g + r + 1]]

-----------------------------------------------------------------------------
\* C1: timers are decremented only by the timer clock, never by instruction
\* execution: a cycle that executes an instruction other than Fx15 / Fx18
\* leaves the delay timer and the sound timer as they were.
C1_TimersOnlyByClock ==
    [][(CycleStep /\ ~IsTimerWrite(Fetched) /\ status' = "running")
         => (delay_timer' = delay_timer /\ sound_timer' = sound_timer)]_vars

\* C2: after construction and a successful load, before any instruction
\* executes, everything but memory is zero and PC = 0x200, and the first
\* instruction fetched is the word at 0x200.
C2_StartsAtRomOrigin ==
    /\ (status = "running" /\ cycles = 0) =>
          /\ pc = ProgramStart
          /\ AllZero(v) /\ i = 0 /\ AllZero(stack) /\ sp = 0
          /\ AllZero(display) /\ (events = 0 => PressedKeys = {})
          /\ delay_timer = 0 /\ sound_timer = 0
    /\ (status = "running" /\ cycles = 1) => fetch_pc = ProgramStart

\* C3: loading a ROM longer than 3584 bytes fails with an error value
\* returned to the caller, with no ROM byte written and no instruction run.
C3_TooBigRomRejected ==
    (game # 0 /\ Files[game].readable /\ Files[game].fail_at = 0
        /\ Len(RomBytes) > MemSize - ProgramStart)
      => (status = "err" /\ AllZero(memory) /\ cycles = 0)

\* C4: after a successful load of a ROM of length L <= 3584, memory holds
\* the ROM bytes from 0x200, glyph g at 5g..5g+4 for every hex digit g, and
\* zero everywhere else.
C4_LoadedMemoryLayout ==
    (status = "running" /\ cycles = 0) =>
        /\ Len(RomBytes) <= MemSize - ProgramStart
        /\ \A a \in 0..(MemSize - 1) : Get(memory, a) = LoadedImage(a)
        /\ \A g \in 0..15 : \A r \in 0..4 : Get(memory, 5 * g + r) = Glyph(g)[r]

C4_Witness ==
    /\ status = "running" /\ cycles = 0
    /\ Len(RomBytes) = MemSize - ProgramStart
    /\ Get(memory, MemSize - 1) = \hA5 /\ Get(memory, ProgramStart) = \hA5
    /\ Get(memory, 0) = \hF0

\* C5: while PC points at Fx0A and no key is pressed, a cycle changes
\* nothing but the timers (net PC change 0); in a cycle in which a key is
\* pressed PC advances by exactly 2.
C5_KeyWaitHoldsStill ==
    [][(CycleStep /\ IsFx0A(Fetched))
         => IF PressedKeys = {}
            THEN /\ pc' = pc /\ v' = v /\ i' = i /\ stack' = stack /\ sp' = sp
                 /\ memory' = memory /\ display' = display
                 /\ status' = "running"
            ELSE pc' = pc + 2 /\ status' = "running"]_vars

\* Three cycles in a row have waited at the same Fx0A, and a later state
\* where the wait has ended with PC two further.
C5_Witness ==
    /\ status = "running" /\ phase = "poll"
    /\ IsFx0A(opcode) /\ fetch_pc = pc /\ PressedKeys = {}
    /\ cycles >= 111

\* C6: Fx0A with keys pressed stores the lowest pressed index in Vx, changes
\* no other register and advances PC by 2.
C6_KeyWaitStoresLowest ==
    [][(CycleStep /\ IsFx0A(Fetched) /\ PressedKeys # {})
         => /\ v' = [v EXCEPT ![x_of(Fetched)] = LowestPressed]
            /\ pc' = pc + 2]_vars

\* C7: 2nnn at address a pushes a + 2, increments sp and leaves PC = nnn;
\* 00EE pops the top entry into PC and decrements sp.
C7_CallReturnRoundTrip ==
    [][CycleStep =>
         /\ (family(Fetched) = \h2000 /\ sp < StackSize)
               => (stack'[sp] = pc + 2 /\ sp' = sp + 1 /\ pc' = nnn_of(Fetched))
         /\ (Fetched = \h00EE /\ sp > 0)
               => (pc' = stack[sp - 1] /\ sp' = sp - 1)]_vars

\* C8: in every reachable state the stack pointer is in [0,16), and a call
\* at a full stack is a handled error, not an out-of-range stack access.
C8_StackPointerInRange ==
    /\ sp \in 0..(StackSize - 1)
    /\ ~(status = "panicked" /\ cycles > 0 /\ family(opcode) = \h2000)

\* C10: after a cycle that executes 1nnn, PC = nnn; after Bnnn, PC = nnn + V0;
\* nothing else changes.
C10_JumpSetsPcExactly ==
    [][(CycleStep /\ family(Fetched) \in {\h1000, \hB000})
         => /\ pc' = nnn_of(Fetched) + (IF family(Fetched) = \hB000 THEN v[0] ELSE 0)
            /\ v' = v /\ i' = i /\ memory' = memory /\ stack' = stack
            /\ sp' = sp /\ display' = display]_vars

-----------------------------------------------------------------------------
(* The skip instructions. *)

IsSkip(op) ==
    \/ family(op) \in {\h3000, \h4000}
    \/ family(op) \in {\h5000, \h9000} /\ n_of(op) = 0
    \/ family(op) = \hE000 /\ nn_of(op) \in {\h9E, \hA1}

\* Key number k of the keypad is down; there is no key above 0xF.
KeyDown(k) == k < NumKeys /\ keypad[k]

\* The condition each skip instruction is documented to test.
SkipCondition(op) ==
    CASE family(op) = \h3000 -> v[x_of(op)] = nn_of(op)
      [] family(op) = \h4000 -> v[x_of(op)] # nn_of(op)
      [] family(op) = \h5000 -> v[x_of(op)] = v[y_of(op)]
      [] family(op) = \h9000 -> v[x_of(op)] # v[y_of(op)]
      [] nn_of(op) = \h9E -> KeyDown(v[x_of(op)])
      [] OTHER -> ~KeyDown(v[x_of(op)])

\* C11: a cycle that executes a skip instruction (3xkk, 4xkk, 5xy0, 9xy0,
\* Ex9E, ExA1) completes, advances PC by 4 when the skip condition holds and
\* by 2 when it does not, and changes no register, memory cell or keypad
\* entry, whatever the registers and the keypad hold.
C11_SkipAdvancesPc ==
    [][(CycleStep /\ IsSkip(Fetched))
         => /\ status' = "running"
            /\ pc' = pc + (IF SkipCondition(Fetched) THEN 4 ELSE 2)
            /\ v' = v /\ memory' = memory /\ keypad' = keypad]_vars

\* The same for every skip but a key skip whose Vx is no key number.
C11_SkipWithKeyInRange ==
    [][(CycleStep /\ IsSkip(Fetched)
          /\ (family(Fetched) = \hE000 => v[x_of(Fetched)] < NumKeys))
         => /\ status' = "running"
            /\ pc' = pc + (IF SkipCondition(Fetched) THEN 4 ELSE 2)
            /\ v' = v /\ memory' = memory /\ keypad' = keypad]_vars

-----------------------------------------------------------------------------
(* The 0nnn family. *)

\* C12: a cycle that executes a 0nnn word other than 00E0 and 00EE advances
\* PC by exactly 2 and changes no register, I, stack, memory or display cell.
C12_SysIsNoOp ==
    [][(CycleStep /\ family(Fetched) = \h0000 /\ Fetched \notin {\h00E0, \h00EE})
         => /\ pc' = pc + 2
            /\ v' = v /\ i' = i /\ stack' = stack /\ sp' = sp
            /\ memory' = memory /\ display' = display]_vars

\* C13: after a cycle that executes 00E0, whatever the display showed, all
\* 64x32 pixels are 0 and PC has advanced by exactly 2.
C13_ClearScreen ==
    [][(CycleStep /\ Fetched = \h00E0)
         => (AllZero(display') /\ pc' = pc + 2)]_vars

-----------------------------------------------------------------------------
(* Arithmetic and shifts of the 8xyN family. *)

IsAddSub(op) == family(op) = \h8000 /\ n_of(op) \in {4, 5, 7}

\* The 8-bit result and the flag of 8xy4, 8xy5 and 8xy7 on operands a = Vx
\* and b = Vy.
AddSubResult(op, a, b) ==
    CASE n_of(op) = 4 -> (a + b) % 256
      [] n_of(op) = 5 -> (a - b) % 256
      [] OTHER -> (b - a) % 256

AddSubFlag(op, a, b) ==
    CASE n_of(op) = 4 -> IF a + b > 255 THEN 1 ELSE 0
      [] n_of(op) = 5 -> IF a >= b THEN 1 ELSE 0
      [] OTHER -> IF b >= a THEN 1 ELSE 0

\* C14: a cycle that executes 8xy4, 8xy5 or 8xy7 leaves VF equal to the carry
\* (sum > 255) or not-borrow (minuend >= subtrahend) flag, also when x or y
\* is F, leaves the 8-bit sum or difference in Vx when x is not F, and
\* changes no other register.
C14_AddSubSetFlagLast ==
    [][(CycleStep /\ IsAddSub(Fetched))
         => LET x == x_of(Fetched)
                a == v[x]
                b == v[y_of(Fetched)]
            IN  v' = [k \in 0..(NumRegs - 1) |->
                        IF k = 15 THEN AddSubFlag(Fetched, a, b)
                        ELSE IF k = x THEN AddSubResult(Fetched, a, b)
                        ELSE v[k]]]_vars

\* 8F24 has run on VF = 0xFF and V2 = 0x01: the sum 0x00 was replaced by the
\* carry.
C14_Witness ==
    /\ status = "running"
    /\ phase = "sound"
    /\ opcode = \h8F24
    /\ v[2] = 1
    /\ v[15] = 1

IsShift(op) == family(op) = \h8000 /\ n_of(op) \in {6, 14}

\* C15: a cycle that executes 8xy6 or 8xyE reads Vx alone and leaves VF equal
\* to the bit shifted out of Vx (the least significant bit for 8xy6, the most
\* significant for 8xyE) for every register index x, leaves Vx div 2 or
\* (Vx * 2) mod 256 in Vx when x is not F, and changes no other register.
C15_ShiftSetsFlagToBitOut ==
    [][(CycleStep /\ IsShift(Fetched))
         => LET x == x_of(Fetched)
                a == v[x]
                out == IF n_of(Fetched) = 6 THEN a % 2 ELSE a \div 128
                shifted == IF n_of(Fetched) = 6 THEN a \div 2 ELSE (a * 2) % 256
            IN  v' = [k \in 0..(NumRegs - 1) |->
                        IF k = 15 THEN out
                        ELSE IF k = x THEN shifted
                        ELSE v[k]]]_vars

\* The same for every register index x but F.
C15_ShiftOfOtherThanVF ==
    [][(CycleStep /\ IsShift(Fetched) /\ x_of(Fetched) # 15)
         => LET x == x_of(Fetched)
                a == v[x]
                out == IF n_of(Fetched) = 6 THEN a % 2 ELSE a \div 128
                shifted == IF n_of(Fetched) = 6 THEN a \div 2 ELSE (a * 2) % 256
            IN  v' = [k \in 0..(NumRegs - 1) |->
                        IF k = 15 THEN out
                        ELSE IF k = x THEN shifted
                        ELSE v[k]]]_vars

-----------------------------------------------------------------------------
(* Sprites. *)

\* A cycle that executes a Dxyn and completes.
DrawStep == CycleStep /\ family(Fetched) = \hD000 /\ status' = "running"

HasSetBit(rows) == \E r \in 1..Len(rows) : rows[r] # 0

\* The draw of this step turned a set pixel off.
TurnedOff == \E p \in DOMAIN display : Get(display', p) = 0

\* C16 as stated: after any Dxyn VF is 1 if the draw turned a set pixel off
\* and 0 if not; a Dxyn that draws the same sprite rows at the same Vx, Vy as
\* the Dxyn of the cycle before restores the display that first draw found,
\* and leaves VF = 1 whenever the sprite has a set bit.
C16_SecondDrawAlwaysCollides ==
    [][DrawStep
         => /\ v'[15] = (IF TurnedOff THEN 1 ELSE 0)
            /\ last_draw'.twice
                 => /\ display' = last_draw'.origin
                    /\ HasSetBit(last_draw'.rows) => v'[15] = 1]_vars

\* C16, amended: after any Dxyn VF is 1 if the draw turned a set pixel off
\* and 0 if not; a Dxyn that draws the same sprite rows at the same Vx, Vy as
\* the Dxyn of the cycle before restores the display that first draw found,
\* and leaves VF = 1 if that first draw turned a pixel on and 0 if it did not.
C16_XorBlit ==
    [][DrawStep
         => /\ v'[15] = (IF TurnedOff THEN 1 ELSE 0)
            /\ last_draw'.twice
                 => /\ display' = last_draw'.origin
                    /\ v'[15] = (IF \E p \in DOMAIN display :
                                        Get(last_draw'.origin, p) = 0
                                 THEN 1 ELSE 0)]_vars

\* The sprite 0x90 has been drawn twice in a row on a picture that had both
\* of its pixels set: the picture is back and VF is 0.
C16_Witness ==
    /\ status = "running"
    /\ last_draw.twice
    /\ last_draw.rows = << \h90 >>
    /\ display = last_draw.origin
    /\ display # EmptyArray
    /\ v[15] = 0

\* Bit c, counted from the most significant, of sprite row r: memory[I + r].
SpriteBit(r, c) == (Get(memory, i + r) \div 2^(7 - c)) % 2

\* The display cell of bit c of row r for the Dxyn word op, row by row from
\* (Vx mod 64, Vy mod 32), columns wrapping at 64 and rows at 32.
SpriteCell(op, r, c) ==
    (((v[y_of(op)] % DisplayHeight) + r) % DisplayHeight) * DisplayWidth
        + (((v[x_of(op)] % DisplayWidth) + c) % DisplayWidth)

\* The cells addressed by the set bits of the sprite of op.
SpriteCells(op) ==
    {SpriteCell(op, rc[1], rc[2]) :
        rc \in {q \in (0..(n_of(op) - 1)) \X (0..7) : SpriteBit(q[1], q[2]) = 1}}

\* C17: a cycle that executes Dxyn flips exactly the display cells that a
\* set bit of the sprite addresses, bit c of row r going to column
\* ((Vx mod 64) + c) mod 64 of row ((Vy mod 32) + r) mod 32; every other cell
\* is unchanged, every cell holds 0 or 1, and n = 0 changes no pixel.
C17_DrawWrapsAtOrigin ==
    [][DrawStep
         => LET cells == SpriteCells(Fetched)
            IN  /\ \A p \in DOMAIN display \cup DOMAIN display' \cup cells :
                      Get(display', p) = (IF p \in cells THEN 1 - Get(display, p)
                                          ELSE Get(display, p))
                /\ \A p \in DOMAIN display' : display'[p] \in {0, 1}
                /\ n_of(Fetched) = 0 => display' = display]_vars

\* Glyph 0 has been drawn on a clear display with Vx = 0x7F and Vy = 0x7F:
\* its first row F0 is in row 31 at columns 63, 0, 1, 2 and its second row
\* 90 in row 0 at columns 63 and 2.
C17_Witness ==
    /\ status = "running"
    /\ opcode = \hD125
    /\ fetch_pc = \h214
    /\ v[1] = \h7F
    /\ v[2] = \h7F
    /\ \A p \in {31 * 64 + 63, 31 * 64, 31 * 64 + 1, 31 * 64 + 2, 63, 2} :
          Get(display, p) = 1
    /\ \A p \in {31 * 64 + 62, 31 * 64 + 3, 0, 1, 64, 3} : Get(display, p) = 0

-----------------------------------------------------------------------------
(* Memory written and read through I. *)

IsFx(op, nn) == family(op) = \hF000 /\ nn_of(op) = nn

\* Every memory cell outside the set held is the same after the step.
MemoryKeptOutside(held) ==
    \A a \in (DOMAIN memory \cup DOMAIN memory') \ held :
        Get(memory', a) = Get(memory, a)

\* C18: a cycle that executes Fx33 with I + 2 <= 4095 leaves at I, I+1 and
\* I+2 three decimal digits whose value 100*h + 10*t + o is Vx, and changes
\* no other memory byte and no register.
C18_BcdDigits ==
    [][(CycleStep /\ IsFx(Fetched, \h33) /\ i + 2 <= MemSize - 1)
         => /\ status' = "running"
            /\ \A k \in 0..2 : Get(memory', i + k) \in 0..9
            /\ 100 * Get(memory', i) + 10 * Get(memory', i + 1)
                  + Get(memory', i + 2) = v[x_of(Fetched)]
            /\ MemoryKeptOutside({i, i + 1, i + 2})
            /\ v' = v /\ i' = i]_vars

\* F133 has run with V1 = 156 and I = 0x300: the digits 1, 5, 6 are there.
C18_Witness ==
    /\ status = "running"
    /\ opcode = \hF133
    /\ fetch_pc = \h206
    /\ v[1] = 156
    /\ Get(memory, \h300) = 1
    /\ Get(memory, \h301) = 5
    /\ Get(memory, \h302) = 6

\* C19: a cycle that executes Fx55 (with I + x inside memory) copies V0..Vx
\* to memory[I..I+x] and changes no other byte, no register and not I; one
\* that executes Fx65 copies memory[I..I+x] to V0..Vx and changes no register
\* above Vx, no byte and not I; and an Fx65 that follows an Fx55 of the same
\* x and I, with only registers overwritten in between, leaves in V0..Vx the
\* values that Fx55 stored.
C19_StoreLoadRoundTrip ==
    [][/\ (CycleStep /\ IsFx(Fetched, \h55) /\ i + x_of(Fetched) <= MemSize - 1)
            => /\ status' = "running"
               /\ \A k \in 0..x_of(Fetched) : Get(memory', i + k) = v[k]
               /\ MemoryKeptOutside(i..(i + x_of(Fetched)))
               /\ v' = v /\ i' = i
       /\ (CycleStep /\ IsFx(Fetched, \h65) /\ i + x_of(Fetched) <= MemSize - 1)
            => /\ status' = "running"
               /\ \A k \in 0..(NumRegs - 1) :
                     v'[k] = (IF k <= x_of(Fetched) THEN Get(memory, i + k) ELSE v[k])
               /\ memory' = memory /\ i' = i
               /\ (last_store.valid /\ ~last_store.loaded
                     /\ last_store.x = x_of(Fetched) /\ last_store.i = i)
                    => \A k \in 0..x_of(Fetched) : v'[k] = last_store.v[k]]_vars

\* F255 stored V0 = 0x20, V1 = 0x9C, V2 = 0x5A, all three were then set to 0,
\* and F265 has brought them back.
C19_Witness ==
    /\ status = "running"
    /\ opcode = \hF265
    /\ last_store.loaded
    /\ last_store.x = 2
    /\ last_store.changed = {0, 1, 2}
    /\ v[0] = \h20 /\ v[1] = \h9C /\ v[2] = \h5A

-----------------------------------------------------------------------------
(* Words outside the instruction table. *)

IsUnknown(op) ==
    \/ family(op) = \h8000 /\ n_of(op) \notin {0, 1, 2, 3, 4, 5, 6, 7, 14}
    \/ family(op) = \hE000 /\ nn_of(op) \notin {\h9E, \hA1}
    \/ family(op) = \hF000
         /\ nn_of(op) \notin {\h07, \h0A, \h15, \h18, \h1E, \h29, \h33, \h55, \h65}

\* C20: a cycle that fetches an 8xyN, ExNN or FxNN word outside the
\* instruction table completes, advances PC by exactly 2 and changes no
\* register, I, stack, memory or display cell.
C20_UnknownWordIsSkipped ==
    [][(CycleStep /\ IsUnknown(Fetched))
         => /\ status' = "running"
            /\ pc' = pc + 2
            /\ v' = v /\ i' = i /\ stack' = stack /\ sp' = sp
            /\ memory' = memory /\ display' = display]_vars

\* The word E2FF at 0x216 has been executed and the run goes on at 0x218.
C20_Witness ==
    /\ status = "running"
    /\ phase = "sound"
    /\ opcode = \hE2FF
    /\ fetch_pc = \h216
    /\ pc = \h218

-----------------------------------------------------------------------------
(* Memory bounds. *)

\* A step of the run loop that is a call of emulate_cycle.
EmulateStep == status = "running" /\ phase = "poll" /\ cycles' = cycles + 1

\* The indices emulate_cycle subscripts memory with, from the machine as it
\* is before the cycle: pc and pc + 1 for the fetch and, when both are in
\* memory, i + row for the rows of Dxyn, i..i+2 for Fx33 and i..i+x for Fx55
\* and Fx65.  The u16 sums are taken as a build without overflow checks
\* computes them.
MemoryIndices ==
    {pc, U16Wrap(pc + 1)}
    \cup (IF pc >= MemSize \/ U16Wrap(pc + 1) >= MemSize THEN {}
          ELSE IF family(Fetched) = \hD000
          THEN {U16Wrap(i + row) : row \in 0..(n_of(Fetched) - 1)}
          ELSE IF IsFx(Fetched, \h33) THEN i..(i + 2)
          ELSE IF IsFx(Fetched, \h55) \/ IsFx(Fetched, \h65)
          THEN i..(i + x_of(Fetched))
          ELSE {})

\* C21: no cycle subscripts memory outside [0,4095], neither in its fetch at
\* PC and PC+1 nor at I+row in Dxyn, I..I+2 in Fx33 or I..I+x in Fx55/Fx65,
\* and none ends in a panic on such a subscript.
C21_MemoryAccessInRange ==
    [][EmulateStep
         => /\ \A a \in MemoryIndices : a \in 0..(MemSize - 1)
            /\ status' = "panicked"
                 => ~(\/ pc >= MemSize - 1
                      \/ family(Fetched) = \hD000
                      \/ IsFx(Fetched, \h33)
                      \/ IsFx(Fetched, \h55)
                      \/ IsFx(Fetched, \h65))]_vars

\* A cycle panics on a memory subscript exactly when one of the indices it
\* subscripts memory with is outside [0,4095].
C21_PanicIffIndexOutOfRange ==
    [][(EmulateStep /\ (\/ pc >= MemSize - 1
                        \/ family(Fetched) = \hD000
                        \/ IsFx(Fetched, \h33)
                        \/ IsFx(Fetched, \h55)
                        \/ IsFx(Fetched, \h65)))
         => (status' = "panicked"
               <=> \E a \in MemoryIndices : a \notin 0..(MemSize - 1))]_vars

-----------------------------------------------------------------------------
(* What a draw leaves alone. *)

\* C22: a cycle that executes Dxyn, for any n in 0..15, leaves the index
\* register I, memory and the registers V0..VE as they were.
C22_DrawKeepsIndex ==
    [][DrawStep
         => /\ i' = i
            /\ memory' = memory
            /\ \A k \in 0..(NumRegs - 2) : v'[k] = v[k]]_vars

\* The same without I: a draw changes no memory byte and none of V0..VE.
C22_DrawKeepsMemoryAndRegisters ==
    [][DrawStep
         => /\ memory' = memory
            /\ \A k \in 0..(NumRegs - 2) : v'[k] = v[k]]_vars

====
